---- MODULE Spec2Model ----
(***************************************************************************)
(* Hybrid-encryption benchmark client of PQC_grafana (RSA-2048 against     *)
(* ML-KEM-768): the ticker-driven loop of main, the two public-key         *)
(* fetchers, the wrap steps and the Prometheus gauges it feeds (Spec,      *)
(* LiveSpec); the two key servers and their request metrics (ServerSpec);  *)
(* encryptAES as a function on bytes (AesSpec).                            *)
(*                                                                         *)
(* Durations are Go time.Duration values (integer nanoseconds).  Every     *)
(* exported number is a Go float64; the arithmetic the loop performs on    *)
(* them (+=, /) is IEEE-754 binary64 with round-to-nearest-even and is     *)
(* modelled bit-exactly on multi-limb naturals.                            *)
(***************************************************************************)
EXTENDS Integers, Sequences, FiniteSets, TLC

(***************************************************************************)
(* Multi-limb naturals: little-endian sequences of limbs below LimbBase,   *)
(* without leading zero limbs; <<>> is 0.                                  *)
(***************************************************************************)
LimbBase == 134217728

LimbBits == 27

MantBits == 53

RECURSIVE BNorm(_)
BNorm(a) ==
    IF a = <<>> THEN a
    ELSE IF a[Len(a)] = 0 THEN BNorm(SubSeq(a, 1, Len(a) - 1)) ELSE a

RECURSIVE BFromInt(_)
BFromInt(n) ==
    IF n = 0 THEN <<>> ELSE <<n % LimbBase>> \o BFromInt(n \div LimbBase)

Limb(a, i) == IF i <= Len(a) THEN a[i] ELSE 0

MaxOf(x, y) == IF x >= y THEN x ELSE y

MinOf(x, y) == IF x <= y THEN x ELSE y

RECURSIVE BAddC(_, _, _, _)
BAddC(a, b, i, c) ==
    IF i > MaxOf(Len(a), Len(b))
    THEN (IF c = 0 THEN <<>> ELSE <<c>>)
    ELSE LET s == Limb(a, i) + Limb(b, i) + c
         IN  <<s % LimbBase>> \o BAddC(a, b, i + 1, s \div LimbBase)

BAdd(a, b) == BAddC(a, b, 1, 0)

RECURSIVE BSubC(_, _, _, _)
BSubC(a, b, i, c) ==
    IF i > Len(a) THEN <<>>
    ELSE LET s == Limb(a, i) - Limb(b, i) - c
         IN  IF s < 0 THEN <<s + LimbBase>> \o BSubC(a, b, i + 1, 1)
                      ELSE <<s>> \o BSubC(a, b, i + 1, 0)

\* a - b for a >= b
BSub(a, b) == BNorm(BSubC(a, b, 1, 0))

RECURSIVE BGeqAt(_, _, _)
BGeqAt(a, b, i) ==
    IF i = 0 THEN TRUE
    ELSE IF a[i] # b[i] THEN a[i] > b[i] ELSE BGeqAt(a, b, i - 1)

BGeq(a, b) ==
    IF Len(a) # Len(b) THEN Len(a) > Len(b) ELSE BGeqAt(a, b, Len(a))

BDbl(a) == BAdd(a, a)

BHalf(a) ==
    BNorm([i \in 1..Len(a) |->
              (a[i] \div 2) + (Limb(a, i + 1) % 2) * (LimbBase \div 2)])

BOdd(a) == a # <<>> /\ a[1] % 2 = 1

RECURSIVE IntBitLen(_)
IntBitLen(n) == IF n = 0 THEN 0 ELSE 1 + IntBitLen(n \div 2)

BBitLen(a) ==
    IF a = <<>> THEN 0 ELSE LimbBits * (Len(a) - 1) + IntBitLen(a[Len(a)])

RECURSIVE BShl(_, _)
BShl(a, k) ==
    IF a = <<>> \/ k = 0 THEN a
    ELSE IF k >= LimbBits THEN <<0>> \o BShl(a, k - LimbBits)
    ELSE BShl(BDbl(a), k - 1)

\* n shifted right by k bits, with the guard bit (the last bit shifted out)
\* and the sticky bit (the OR of all bits shifted out before it)
RECURSIVE BShrGS(_, _, _, _)
BShrGS(n, k, g, s) ==
    IF k = 0 THEN [n |-> n, g |-> g, s |-> s]
    ELSE LET h == BHalf(n) IN
         IF BOdd(n)
         THEN (IF s \/ g THEN BShrGS(h, k - 1, TRUE, TRUE)
                         ELSE BShrGS(h, k - 1, TRUE, FALSE))
         ELSE (IF s \/ g THEN BShrGS(h, k - 1, FALSE, TRUE)
                         ELSE BShrGS(h, k - 1, FALSE, FALSE))

(***************************************************************************)
(* float64.  A finite non-zero value is m * 2^e with 2^52 <= m < 2^53;     *)
(* the loop only produces non-negative numbers, +Inf and NaN.              *)
(***************************************************************************)
FZero == [cls |-> "zero", m |-> <<>>, e |-> 0]

FInf == [cls |-> "inf", m |-> <<>>, e |-> 0]

FNaN == [cls |-> "nan", m |-> <<>>, e |-> 0]

\* the float64 nearest to (n + f) * 2^e, ties to even, where 0 < f < 1 when
\* sticky and f = 0 otherwise; a sticky n has more than MantBits + 1 bits
RoundNearestEven(n, e, sticky) ==
    IF n = <<>> THEN FZero
    ELSE LET len == BBitLen(n) IN
         IF len <= MantBits
         THEN [cls |-> "fin", m |-> BShl(n, MantBits - len),
               e |-> e - (MantBits - len)]
         ELSE LET k  == len - MantBits
                  r  == BShrGS(n, k, FALSE, sticky)
                  up == r.g /\ (r.s \/ BOdd(r.n))
                  m1 == IF up THEN BAdd(r.n, <<1>>) ELSE r.n
              IN  IF BBitLen(m1) > MantBits
                  THEN [cls |-> "fin", m |-> BHalf(m1), e |-> e + k + 1]
                  ELSE [cls |-> "fin", m |-> m1, e |-> e + k]

\* float64(n) of a non-negative int
FromInt(n) == RoundNearestEven(BFromInt(n), 0, FALSE)

\* x + y
FAdd(x, y) ==
    IF x.cls = "nan" \/ y.cls = "nan" THEN FNaN
    ELSE IF x.cls = "inf" \/ y.cls = "inf" THEN FInf
    ELSE IF x.cls = "zero" THEN y
    ELSE IF y.cls = "zero" THEN x
    ELSE LET e == MinOf(x.e, y.e)
         IN  RoundNearestEven(BAdd(BShl(x.m, x.e - e), BShl(y.m, y.e - e)),
                              e, FALSE)

\* restoring division: k more quotient bits of st.r / d, given st.r < d
RECURSIVE DivBits(_, _, _)
DivBits(st, d, k) ==
    IF k = 0 THEN st
    ELSE LET r2 == BDbl(st.r)
         IN  IF BGeq(r2, d)
             THEN DivBits([q |-> BAdd(BDbl(st.q), <<1>>), r |-> BSub(r2, d)],
                          d, k - 1)
             ELSE DivBits([q |-> BDbl(st.q), r |-> r2], d, k - 1)

QuotBits == 56

\* x / y
FDiv(x, y) ==
    IF x.cls = "nan" \/ y.cls = "nan" THEN FNaN
    ELSE IF x.cls = "inf" THEN (IF y.cls = "inf" THEN FNaN ELSE FInf)
    ELSE IF y.cls = "inf" THEN FZero
    ELSE IF y.cls = "zero" THEN (IF x.cls = "zero" THEN FNaN ELSE FInf)
    ELSE IF x.cls = "zero" THEN FZero
    ELSE LET ge == BGeq(x.m, y.m)
             d  == DivBits([q |-> IF ge THEN <<1>> ELSE <<>>,
                            r |-> IF ge THEN BSub(x.m, y.m) ELSE x.m],
                           y.m, QuotBits)
         IN  RoundNearestEven(d.q, x.e - y.e - QuotBits, d.r # <<>>)

\* x > 0
FPositive(x) == x.cls \in {"fin", "inf"}

Second == 1000000000

\* time.Duration.Seconds(): float64(sec) + float64(nsec)/1e9
Seconds(d) ==
    FAdd(FromInt(d \div Second), FDiv(FromInt(d % Second), FromInt(Second)))

(***************************************************************************)
(* What the two key-issuing endpoints can answer to http.Get.              *)
(***************************************************************************)
MaxTicks == 3

Nil == [nil |-> TRUE]

\* decoded key bytes: what they parse as, how many there are, and (for an
\* RSA key) the modulus size in bytes
Rsa2048Der == [kind |-> "rsa", len |-> 294, k |-> 256]

Rsa512Der == [kind |-> "rsa", len |-> 94, k |-> 64]

EcP256Der == [kind |-> "ecdsa", len |-> 91, k |-> 0]

Kyber768Bin == [kind |-> "kyber768", len |-> 1184, k |-> 0]

NoBytes == [kind |-> "junk", len |-> 0, k |-> 0]

JunkBytes == [kind |-> "junk", len |-> 7, k |-> 0]

KeyBlobs == {Rsa2048Der, Rsa512Der, EcP256Der, Kyber768Bin, NoBytes, JunkBytes}

\* the outcome of http.Get and the body it carries; public_key is a string
\* that either is the standard base64 of some bytes or is not base64 at all
TransportFailure ==
    [net |-> "error", status |-> 0, json |-> FALSE, b64 |-> FALSE,
     bytes |-> NoBytes]

Answer(status, json, b64, bytes) ==
    [net |-> "ok", status |-> status, json |-> json, b64 |-> b64,
     bytes |-> bytes]

Responses ==
    {TransportFailure, Answer(500, TRUE, TRUE, Rsa2048Der),
     Answer(201, FALSE, FALSE, NoBytes), Answer(200, FALSE, FALSE, NoBytes)}
    \cup {Answer(200, TRUE, FALSE, b) : b \in {Rsa2048Der, Kyber768Bin}}
    \cup {Answer(200, TRUE, TRUE, b) : b \in KeyBlobs}

StatusOK == 200

\* base64.StdEncoding.DecodeString
Base64Decode(r) ==
    IF r.b64 THEN [err |-> "nil", bytes |-> r.bytes]
    ELSE [err |-> "Base64DecodeError", bytes |-> Nil]

\* x509.ParsePKIXPublicKey
ParsePKIXPublicKey(b) ==
    IF b.kind \in {"rsa", "ecdsa"} THEN [err |-> "nil", key |-> b]
    ELSE [err |-> "KeyParseError", key |-> Nil]

Kyber768PublicKeySize == 1184

Kyber768CiphertextSize == 1088

\* kyber768.Scheme().UnmarshalBinaryPublicKey
UnmarshalBinaryPublicKey(b) ==
    IF b.len = Kyber768PublicKeySize
    THEN [err |-> "nil", key |-> [kind |-> "kyber768", len |-> b.len, k |-> 0]]
    ELSE [err |-> "KeyParseError", key |-> Nil]

FetchFailed(e) == [publicKey |-> Nil, pubKeyBytes |-> Nil, err |-> e]

\* faulty variant: the status of the response is not looked at
fetchPublicKeyAnyStatus(r) ==
    IF r.net # "ok" THEN FetchFailed("HTTPGetError")
    ELSE IF ~r.json THEN FetchFailed("JSONDecodeError")
    ELSE LET d == Base64Decode(r) IN
         IF d.err # "nil" THEN FetchFailed(d.err)
         ELSE LET p == ParsePKIXPublicKey(d.bytes) IN
              IF p.err # "nil" THEN FetchFailed(p.err)
              ELSE IF p.key.kind # "rsa" THEN FetchFailed("RSAConversionError")
              ELSE [publicKey |-> p.key, pubKeyBytes |-> d.bytes, err |-> "nil"]

fetchPublicKey(r) ==
    IF r.net # "ok" THEN FetchFailed("HTTPGetError")
    ELSE IF r.status # StatusOK THEN FetchFailed("HTTPStatusError")
    ELSE IF ~r.json THEN FetchFailed("JSONDecodeError")
    ELSE LET d == Base64Decode(r) IN
         IF d.err # "nil" THEN FetchFailed(d.err)
         ELSE LET p == ParsePKIXPublicKey(d.bytes) IN
              IF p.err # "nil" THEN FetchFailed(p.err)
              ELSE IF p.key.kind # "rsa" THEN FetchFailed("RSAConversionError")
              ELSE [publicKey |-> p.key, pubKeyBytes |-> d.bytes, err |-> "nil"]

fetchMLKEMPublicKey(r) ==
    IF r.net # "ok" THEN FetchFailed("HTTPGetError")
    ELSE IF r.status # StatusOK THEN FetchFailed("HTTPStatusError")
    ELSE IF ~r.json THEN FetchFailed("JSONDecodeError")
    ELSE LET d == Base64Decode(r) IN
         IF d.err # "nil" THEN FetchFailed(d.err)
         ELSE LET p == UnmarshalBinaryPublicKey(d.bytes) IN
              IF p.err # "nil" THEN FetchFailed(p.err)
              ELSE [publicKey |-> p.key, pubKeyBytes |-> d.bytes, err |-> "nil"]

(***************************************************************************)
(* The symmetric step and the two wraps.                                   *)
(***************************************************************************)
\* len() of a slice; a nil slice has length 0
SizeOf(x) == IF x = Nil THEN 0 ELSE x.len

\* faulty variant: an AES-128 key
AesKeySize128 == 128 \div 8

AesKeySize == 32

AesBlockSize == 16

Sha256Size == 32

\* the 32 bytes io.ReadFull(rand.Reader, aesKey) can deliver
AesKeys == {"key-a", "key-b"}

\* wrap durations time.Since can measure, in nanoseconds
RsaDurations == {0, 100000000}

MlkemDurations == {2000000, 100000000}

Durations == RsaDurations \cup MlkemDurations

messages == << [text |-> "pqc", len |-> 60] >>

\* the conversions the loop performs, tabulated over the values it meets
RECURSIVE SecondsTable(_)
SecondsTable(S) ==
    IF S = {} THEN <<>>
    ELSE LET d == CHOOSE x \in S : TRUE
         IN  (d :> Seconds(d)) @@ SecondsTable(S \ {d})

SecondsOf == SecondsTable(Durations)

RECURSIVE Float64Table(_)
Float64Table(S) ==
    IF S = {} THEN <<>>
    ELSE LET n == CHOOSE x \in S : TRUE
         IN  (n :> FromInt(n)) @@ Float64Table(S \ {n})

Lengths == {0, 64, 94, 256, 270, 294, 1088, 1184}

Float64Of == Float64Table(Lengths \cup 0..(MaxTicks + 1))

RECURSIVE QuotientTable(_, _)
QuotientTable(T, S) ==
    IF S = {} THEN <<>>
    ELSE LET p == CHOOSE x \in S : TRUE
         IN  (p :> FDiv(T[p[1]], T[p[2]])) @@ QuotientTable(T, S \ {p})

DurationQuotient == QuotientTable(SecondsOf, Durations \X Durations)

LengthQuotient ==
    QuotientTable(Float64Of, {0, 1088, 1184} \X {0, 256, 270, 294})

\* faulty variant: a plaintext of whole blocks gets no padding
paddingNoneWhenAligned(n) == (AesBlockSize - (n % AesBlockSize)) % AesBlockSize

\* padding := aes.BlockSize - len(plaintext)%aes.BlockSize
padding(n) == AesBlockSize - (n % AesBlockSize)

\* encryptAES: PKCS#7 padding, a random IV, CBC over the padded plaintext
encryptAES(plaintext, key, randOk) ==
    IF SizeOf(key) \notin {16, 24, 32}
    THEN [ciphertext |-> Nil, iv |-> Nil, err |-> "KeySizeError"]
    ELSE IF ~randOk THEN [ciphertext |-> Nil, iv |-> Nil, err |-> "RandError"]
    ELSE [ciphertext |-> [of |-> plaintext.text, key |-> key.bytes,
                          len |-> plaintext.len + padding(plaintext.len)],
          iv |-> [len |-> AesBlockSize], err |-> "nil"]

\* what a read of rand.Reader inside a wrap can give: an error, or bytes
RandReads == {"error", "rand-a"}

\* encryptRSA: rsa.EncryptOAEP with SHA-256, of data, with the bytes read
encryptRSA(publicKey, data, rand) ==
    IF AesKeySize > publicKey.k - 2 * Sha256Size - 2
    THEN [ciphertext |-> Nil, err |-> "MessageTooLong"]
    ELSE IF rand = "error" THEN [ciphertext |-> Nil, err |-> "RandError"]
    ELSE [ciphertext |-> [of |-> data.bytes, rand |-> rand,
                          len |-> publicKey.k],
          err |-> "nil"]

\* faulty variant: the shared secret is used to wrap data
encryptMLKEMOfData(publicKey, data, rand) ==
    IF rand = "error"
    THEN [ciphertext |-> Nil, sharedSecret |-> Nil, err |-> "RandError"]
    ELSE [ciphertext |-> [of |-> data.bytes, rand |-> rand,
                          len |-> Kyber768CiphertextSize],
          sharedSecret |-> [of |-> "shared-secret", rand |-> rand, len |-> 32],
          err |-> "nil"]

\* encryptMLKEM: scheme.Encapsulate(publicKey) with the bytes read; data is
\* not used
encryptMLKEM(publicKey, data, rand) ==
    IF rand = "error"
    THEN [ciphertext |-> Nil, sharedSecret |-> Nil, err |-> "RandError"]
    ELSE [ciphertext |-> [of |-> "shared-secret", rand |-> rand,
                          len |-> Kyber768CiphertextSize],
          sharedSecret |-> [of |-> "shared-secret", rand |-> rand, len |-> 32],
          err |-> "nil"]

(***************************************************************************)
(* encryptAES on bytes.  A byte is a number in 0..255, a []byte a sequence *)
(* of bytes.  The AES block cipher is a keyed permutation of the 16-byte   *)
(* blocks; cipher.NewCBCEncrypter chains it over the blocks.               *)
(***************************************************************************)
MaxMsgLen == 33

ByteValues == 256

RECURSIVE XorBits(_, _, _)
XorBits(a, b, n) ==
    IF n = 0 THEN 0
    ELSE ((a + b) % 2) + 2 * XorBits(a \div 2, b \div 2, n - 1)

\* a ^ b on bytes
XorByte(a, b) == XorBits(a, b, 8)

\* bytes.Repeat([]byte{b}, n)
Repeat(b, n) == [i \in 1..n |-> b]

\* padtext := bytes.Repeat([]byte{byte(padding)}, padding)
padtext(n) == Repeat(padding(n) % ByteValues, padding(n))

\* block.Encrypt: one block under the key
BlockEncrypt(key, block) ==
    [i \in 1..AesBlockSize |->
        (XorByte(block[(i % AesBlockSize) + 1], key[i])
         + key[((i + 7) % Len(key)) + 1]) % ByteValues]

\* mode.CryptBlocks of a CBC encrypter: each block is XORed with the block
\* before it in the ciphertext (the IV for the first) and encrypted
RECURSIVE CryptBlocks(_, _, _)
CryptBlocks(key, prev, src) ==
    IF Len(src) = 0 THEN <<>>
    ELSE LET block == [i \in 1..AesBlockSize |-> XorByte(src[i], prev[i])]
             out   == BlockEncrypt(key, block)
         IN  out \o CryptBlocks(key, out, SubSeq(src, AesBlockSize + 1, Len(src)))

\* encryptAES(plaintext, key) with the IV that rand.Reader delivers
encryptAESBytes(plaintext, key, iv, randOk) ==
    IF Len(key) \notin {16, 24, 32}
    THEN [ciphertext |-> Nil, iv |-> Nil, err |-> "KeySizeError"]
    ELSE IF ~randOk THEN [ciphertext |-> Nil, iv |-> Nil, err |-> "RandError"]
    ELSE [ciphertext |->
              CryptBlocks(key, iv, plaintext \o padtext(Len(plaintext))),
          iv |-> iv, err |-> "nil"]

\* the arguments tried: messages of every length up to MaxMsgLen and of the
\* length of the benchmark's message, with bytes that are and are not
\* padding values; keys of 32 bytes and one of a wrong size; two IVs
MsgLens == 0..MaxMsgLen \cup {messages[1].len}

PlainTexts ==
    {Repeat(b, n) : b \in {1, 16, 65}, n \in MsgLens}
    \cup {[i \in 1..n |-> (i * 7) % 17] : n \in MsgLens}

KeyBytes ==
    {Repeat(7, AesKeySize), [i \in 1..AesKeySize |-> (i * 37) % ByteValues],
     Repeat(7, 15)}

IVs == {Repeat(0, AesBlockSize), [i \in 1..AesBlockSize |-> (i * 11) % ByteValues]}

(***************************************************************************)
(* State.                                                                  *)
(***************************************************************************)
VARIABLES
    tickerC,            \* ticks buffered in ticker.C (capacity 1)
    pc,                 \* where the loop of main is
    hung,               \* main is blocked in an http.Get that is never answered
    counter,            \* tick count
    message,            \* the message of the tick
    encryptionCounter,  \* client_encryption_operations_total
    gauge,              \* the eleven exported gauges
    rsaTotalDuration,
    mlkemTotalDuration,
    operationCount,
    local,              \* the variables of the loop body
    active,             \* history: loop bodies started and not yet left
    calls,              \* history: how often each step ran in this tick
    origin,             \* history: the tick in which each local was assigned
    atStart,            \* history: gauges and statistics when the tick began
    samples,            \* history: wrap durations of the ticks that ran through
    rsaServer,          \* the metrics of the RSA key server, its last answer
    mlkemServer,        \* the metrics of the ML-KEM key server, its last answer
    handled,            \* history: the requests each server has handled
    aesIn,              \* a call of encryptAES: its arguments and the IV drawn
    aesOut              \* what that call returned

clientVars ==
    <<tickerC, pc, hung, counter, message, encryptionCounter, gauge,
      rsaTotalDuration, mlkemTotalDuration, operationCount, local,
      active, calls, origin, atStart, samples>>

serverVars == <<rsaServer, mlkemServer, handled>>

aesVars == <<aesIn, aesOut>>

vars == <<clientVars, serverVars, aesVars>>

GaugeNames ==
    {"rsaEncryptedKeySize", "mlkemEncryptedKeySize", "rsaPublicKeySize",
     "mlkemPublicKeySize", "rsaEncryptionDuration",
     "mlkemEncapsulationDuration", "encryptionDurationRatio",
     "encryptedKeySizeRatio", "publicKeySizeRatio",
     "rsaEncryptionDurationAvg", "mlkemEncapsulationDurationAvg"}

Steps ==
    {"FetchRSA", "FetchMLKEM", "GenKey", "EncryptAES", "WrapRSA",
     "WrapMLKEM", "Record"}

LocalNames ==
    {"rsaPublicKey", "rsaPubKeyBytes", "mlkemPublicKey", "mlkemPubKeyBytes",
     "aesKey", "encryptedMessage", "iv", "rsaEncryptedAESKey",
     "rsaEncryptDuration", "mlkemCiphertext", "mlkemEncapsulateDuration"}

\* the loop body's variables before any of them is assigned
NoLocals == [n \in LocalNames \cup {"err"} |-> IF n = "err" THEN "nil" ELSE Nil]

Stats ==
    [rsaTotalDuration |-> rsaTotalDuration,
     mlkemTotalDuration |-> mlkemTotalDuration,
     operationCount |-> operationCount]

(***************************************************************************)
(* The two key servers: what a request does to the metrics of the server   *)
(* that handles it.  A counter is its value, a histogram the number of its *)
(* observations.                                                           *)
(***************************************************************************)
MaxRequests == 3

Methods == {"GET", "POST"}

Paths == {"/public-key", "/", "/metrics", "/favicon.ico"}

Endpoints == {"public-key", "index"}

\* what rsa.GenerateKey or kyber768.GenerateKeyPair can take, in nanoseconds
KeyGenDurations == {300000, 80000000}

KeyGenSeconds == SecondsTable(KeyGenDurations)

StatusMethodNotAllowed == 405

StatusInternalServerError == 500

\* the patterns registered with http.HandleFunc and http.Handle
ServeMux(path) ==
    IF path = "/public-key" THEN "public-key"
    ELSE IF path = "/metrics" THEN "metrics"
    ELSE "index"

RECURSIVE SumOver(_, _)
SumOver(f, S) ==
    IF S = {} THEN 0
    ELSE LET x == CHOOSE y \in S : TRUE IN f[x] + SumOver(f, S \ {x})

\* the sum of a counter vector over its label values
Total(vec) == SumOver(vec, DOMAIN vec)

\* the metrics the RSA server registers
RsaServerInit ==
    [httpRequestsTotal |-> [k \in Endpoints \X Methods |-> 0],
     httpRequestDuration |-> [e \in Endpoints |-> 0],
     publicKeyRequests |-> 0,
     keyGenerationTime |-> FZero,
     keyGenerationDuration |-> 0,
     status |-> 0]

\* the metrics the ML-KEM server registers
MlkemServerInit ==
    [httpRequestDuration |-> [e \in Endpoints |-> 0],
     publicKeyRequests |-> 0,
     keyGenerationTime |-> FZero,
     keyGenerationDuration |-> 0,
     status |-> 0]

ServerInit ==
    /\ rsaServer = RsaServerInit
    /\ mlkemServer = MlkemServerInit
    /\ handled = [srv \in {"rsa", "mlkem"} |-> [k \in Paths \X Methods |-> 0]]

\* indexHandler of the RSA server writes a page; publicKeyRequests.Inc() is
\* text of that page
RsaIndexHandler(s) == [s EXCEPT !.status = StatusOK]

\* getPublicKeyHandler of the RSA server
RsaGetPublicKeyHandler(s, method, keyOk, d) ==
    IF method # "GET" THEN [s EXCEPT !.status = StatusMethodNotAllowed]
    ELSE IF ~keyOk THEN [s EXCEPT !.status = StatusInternalServerError]
    ELSE [s EXCEPT !.keyGenerationTime = KeyGenSeconds[d],
                   !.keyGenerationDuration = @ + 1,
                   !.status = StatusOK]

\* metricsMiddleware of the RSA server
RsaMetricsMiddleware(s, endpoint, method, keyOk, d) ==
    LET s1 == [s EXCEPT !.httpRequestsTotal[<<endpoint, method>>] = @ + 1]
        s2 == IF endpoint = "public-key"
              THEN RsaGetPublicKeyHandler(s1, method, keyOk, d)
              ELSE RsaIndexHandler(s1)
    IN  [s2 EXCEPT !.httpRequestDuration[endpoint] = @ + 1]

\* indexHandler of the ML-KEM server
MlkemIndexHandler(s) == [s EXCEPT !.status = StatusOK]

\* getPublicKeyHandler of the ML-KEM server
MlkemGetPublicKeyHandler(s, method, keyOk, d) ==
    IF method # "GET" THEN [s EXCEPT !.status = StatusMethodNotAllowed]
    ELSE IF ~keyOk
    THEN [s EXCEPT !.publicKeyRequests = @ + 1,
                   !.status = StatusInternalServerError]
    ELSE [s EXCEPT !.publicKeyRequests = @ + 1,
                   !.keyGenerationTime = KeyGenSeconds[d],
                   !.keyGenerationDuration = @ + 1,
                   !.status = StatusOK]

\* metricsMiddleware of the ML-KEM server
MlkemMetricsMiddleware(s, endpoint, method, keyOk, d) ==
    LET s2 == IF endpoint = "public-key"
              THEN MlkemGetPublicKeyHandler(s, method, keyOk, d)
              ELSE MlkemIndexHandler(s)
    IN  [s2 EXCEPT !.httpRequestDuration[endpoint] = @ + 1]

Init ==
    /\ tickerC = 0
    /\ pc = "Idle"
    /\ hung = FALSE
    /\ counter = 0
    /\ message = Nil
    /\ encryptionCounter = 0
    /\ gauge = [g \in GaugeNames |-> FZero]
    /\ rsaTotalDuration = FZero
    /\ mlkemTotalDuration = FZero
    /\ operationCount = 0
    /\ local = NoLocals
    /\ active = 0
    /\ calls = [s \in Steps |-> 0]
    /\ origin = [n \in LocalNames |-> 0]
    /\ atStart = [gauge |-> [g \in GaugeNames |-> FZero],
                  stats |-> [rsaTotalDuration |-> FZero,
                             mlkemTotalDuration |-> FZero,
                             operationCount |-> 0]]
    /\ samples = <<>>
    /\ ServerInit
    /\ aesIn = Nil
    /\ aesOut = Nil

(***************************************************************************)
(* The loop of main, one action per step of its body.                      *)
(***************************************************************************)
\* faulty variant: every firing starts a body of its own
LoopReadyAlways == TRUE

\* "for range ticker.C" receives again only when the body has been left
LoopReady == pc = "Idle"

\* faulty variant: the failed step is tried again in the same tick
OnErrorRetry(step) == step

\* faulty variant: no "continue" after a failed ML-KEM key fetch
OnErrorSkipsMlkemCheck(step) ==
    IF step = "FetchMLKEM" THEN "GenKey" ELSE "Idle"

\* faulty variant: no "continue" after a failed key generation
OnErrorSkipsKeyGenCheck(step) ==
    IF step = "GenKey" THEN "EncryptAES" ELSE "Idle"

\* faulty variant: no "continue" after a failed AES encryption
OnErrorSkipsAesCheck(step) ==
    IF step = "EncryptAES" THEN "WrapRSA" ELSE "Idle"

\* "continue": a failed step leaves the body for the loop head
OnError(step) == "Idle"

Called(step) == calls' = [calls EXCEPT ![step] = @ + 1]

\* the step failed with error e, which is logged; when the body is left its
\* variables go out of scope
Abandon(e) ==
    /\ pc' = OnError(pc)
    /\ local' = IF OnError(pc) = "Idle" THEN [NoLocals EXCEPT !.err = e]
                ELSE [local EXCEPT !.err = e]
    /\ origin' = IF OnError(pc) = "Idle" THEN [n \in LocalNames |-> 0]
                 ELSE origin
    /\ active' = IF OnError(pc) = "Idle" THEN active - 1 ELSE active
    /\ UNCHANGED gauge

\* time.Ticker delivers into a channel of capacity 1 and drops the tick when
\* the channel is full
TickerFire ==
    /\ tickerC' = 1
    /\ UNCHANGED <<pc, hung, counter, message, encryptionCounter, gauge,
                   rsaTotalDuration, mlkemTotalDuration, operationCount,
                   local, active, calls, origin, atStart, samples>>
    /\ UNCHANGED <<serverVars, aesVars>>

\* faulty variant: the index is one too far
MessageIndexOneOff(c, n) == (c % n) + 1

\* counter%len(messages)
MessageIndex(c, n) == c % n

\* faulty variant: the attempt is not counted
IncMissing(c) == c

\* encryptionCounter.Inc()
Inc(c) == c + 1

StartTick ==
    /\ LoopReady
    /\ tickerC = 1
    /\ counter < MaxTicks
    /\ tickerC' = 0
    /\ counter' = counter + 1
    /\ message' = messages[MessageIndex(counter', Len(messages)) + 1]
    /\ encryptionCounter' = Inc(encryptionCounter)
    /\ pc' = "FetchRSA"
    /\ local' = NoLocals
    /\ active' = active + 1
    /\ calls' = [s \in Steps |-> 0]
    /\ origin' = [n \in LocalNames |-> 0]
    /\ atStart' = [gauge |-> gauge, stats |-> Stats]
    /\ UNCHANGED <<hung, gauge, rsaTotalDuration, mlkemTotalDuration,
                   operationCount, samples>>
    /\ UNCHANGED <<serverVars, aesVars>>

\* http.Get uses http.DefaultClient, whose Timeout is zero: when the endpoint
\* accepts the request and never answers, the call does not return
HttpGetHangs ==
    /\ pc \in {"FetchRSA", "FetchMLKEM"}
    /\ ~hung
    /\ hung' = TRUE
    /\ UNCHANGED <<tickerC, pc, counter, message, encryptionCounter, gauge,
                   rsaTotalDuration, mlkemTotalDuration, operationCount,
                   local, active, calls, origin, atStart, samples>>
    /\ UNCHANGED <<serverVars, aesVars>>

FetchRSA(r) ==
    /\ pc = "FetchRSA"
    /\ ~hung
    /\ Called("FetchRSA")
    /\ LET f == fetchPublicKey(r) IN
       IF f.err # "nil" THEN Abandon(f.err)
       ELSE /\ local' = [local EXCEPT !.rsaPublicKey = f.publicKey,
                                      !.rsaPubKeyBytes = f.pubKeyBytes,
                                      !.err = "nil"]
            /\ origin' = [origin EXCEPT !.rsaPublicKey = counter,
                                        !.rsaPubKeyBytes = counter]
            /\ gauge' = [gauge EXCEPT !.rsaPublicKeySize =
                                          Float64Of[SizeOf(f.pubKeyBytes)]]
            /\ pc' = "FetchMLKEM"
            /\ UNCHANGED active
    /\ UNCHANGED <<tickerC, hung, counter, message, encryptionCounter,
                   rsaTotalDuration, mlkemTotalDuration, operationCount,
                   atStart, samples>>
    /\ UNCHANGED <<serverVars, aesVars>>

FetchMLKEM(r) ==
    /\ pc = "FetchMLKEM"
    /\ ~hung
    /\ Called("FetchMLKEM")
    /\ LET f == fetchMLKEMPublicKey(r) IN
       IF f.err # "nil" THEN Abandon(f.err)
       ELSE /\ local' = [local EXCEPT !.mlkemPublicKey = f.publicKey,
                                      !.mlkemPubKeyBytes = f.pubKeyBytes,
                                      !.err = "nil"]
            /\ origin' = [origin EXCEPT !.mlkemPublicKey = counter,
                                        !.mlkemPubKeyBytes = counter]
            /\ gauge' = [gauge EXCEPT !.mlkemPublicKeySize =
                                          Float64Of[SizeOf(f.pubKeyBytes)]]
            /\ pc' = "GenKey"
            /\ UNCHANGED active
    /\ UNCHANGED <<tickerC, hung, counter, message, encryptionCounter,
                   rsaTotalDuration, mlkemTotalDuration, operationCount,
                   atStart, samples>>
    /\ UNCHANGED <<serverVars, aesVars>>

\* aesKey := make([]byte, 32); io.ReadFull(rand.Reader, aesKey)
GenKey(key, randOk) ==
    /\ pc = "GenKey"
    /\ Called("GenKey")
    /\ IF ~randOk THEN Abandon("RandError")
       ELSE /\ local' = [local EXCEPT !.aesKey = [bytes |-> key,
                                                  len |-> AesKeySize],
                                      !.err = "nil"]
            /\ origin' = [origin EXCEPT !.aesKey = counter]
            /\ pc' = "EncryptAES"
            /\ UNCHANGED <<gauge, active>>
    /\ UNCHANGED <<tickerC, hung, counter, message, encryptionCounter,
                   rsaTotalDuration, mlkemTotalDuration, operationCount,
                   atStart, samples>>
    /\ UNCHANGED <<serverVars, aesVars>>

EncryptAES(randOk) ==
    /\ pc = "EncryptAES"
    /\ Called("EncryptAES")
    /\ LET c == encryptAES(message, local.aesKey, randOk) IN
       IF c.err # "nil" THEN Abandon(c.err)
       ELSE /\ local' = [local EXCEPT !.encryptedMessage = c.ciphertext,
                                      !.iv = c.iv, !.err = "nil"]
            /\ origin' = [origin EXCEPT !.encryptedMessage = counter,
                                        !.iv = counter]
            /\ pc' = "WrapRSA"
            /\ UNCHANGED <<gauge, active>>
    /\ UNCHANGED <<tickerC, hung, counter, message, encryptionCounter,
                   rsaTotalDuration, mlkemTotalDuration, operationCount,
                   atStart, samples>>
    /\ UNCHANGED <<serverVars, aesVars>>

WrapRSA(d, rand) ==
    /\ pc = "WrapRSA"
    /\ Called("WrapRSA")
    /\ LET c == encryptRSA(local.rsaPublicKey, local.aesKey, rand) IN
       IF c.err # "nil" THEN Abandon(c.err)
       ELSE /\ local' = [local EXCEPT !.rsaEncryptedAESKey = c.ciphertext,
                                      !.rsaEncryptDuration = d,
                                      !.err = "nil"]
            /\ origin' = [origin EXCEPT !.rsaEncryptedAESKey = counter,
                                        !.rsaEncryptDuration = counter]
            /\ gauge' = [gauge EXCEPT
                           !.rsaEncryptedKeySize = Float64Of[SizeOf(c.ciphertext)],
                           !.rsaEncryptionDuration = SecondsOf[d]]
            /\ pc' = "WrapMLKEM"
            /\ UNCHANGED active
    /\ UNCHANGED <<tickerC, hung, counter, message, encryptionCounter,
                   rsaTotalDuration, mlkemTotalDuration, operationCount,
                   atStart, samples>>
    /\ UNCHANGED <<serverVars, aesVars>>

WrapMLKEM(d, rand) ==
    /\ pc = "WrapMLKEM"
    /\ Called("WrapMLKEM")
    /\ LET c == encryptMLKEM(local.mlkemPublicKey, local.aesKey, rand) IN
       IF c.err # "nil" THEN Abandon(c.err)
       ELSE /\ local' = [local EXCEPT !.mlkemCiphertext = c.ciphertext,
                                      !.mlkemEncapsulateDuration = d,
                                      !.err = "nil"]
            /\ origin' = [origin EXCEPT !.mlkemCiphertext = counter,
                                        !.mlkemEncapsulateDuration = counter]
            /\ gauge' = [gauge EXCEPT
                           !.mlkemEncryptedKeySize = Float64Of[SizeOf(c.ciphertext)],
                           !.mlkemEncapsulationDuration = SecondsOf[d]]
            /\ pc' = "Record"
            /\ UNCHANGED active
    /\ UNCHANGED <<tickerC, hung, counter, message, encryptionCounter,
                   rsaTotalDuration, mlkemTotalDuration, operationCount,
                   atStart, samples>>
    /\ UNCHANGED <<serverVars, aesVars>>

\* operationCount++
CountUp(n) == n + 1

\* faulty variant: "=" for "+="
AccumulateAssign(total, d) == SecondsOf[d]

\* total += duration.Seconds()
Accumulate(total, d) == FAdd(total, SecondsOf[d])

\* faulty variant: the total is divided by the tick count
AverageOverAttempts(total, n) == FDiv(total, Float64Of[counter])

\* total / float64(operationCount)
Average(total, n) == FDiv(total, Float64Of[n])

\* faulty variant: the duration ratio is computed without the guard
DurationGuardMissing(d) == TRUE

\* if rsaEncryptDuration.Seconds() > 0
DurationGuard(d) == FPositive(SecondsOf[d])

\* if len(...) > 0
SizeGuard(n) == n > 0

\* faulty variant: RSA over ML-KEM
DurationRatioInverse(mlkem, rsa) == DurationQuotient[<<rsa, mlkem>>]

\* ML-KEM over RSA
DurationRatio(mlkem, rsa) == DurationQuotient[<<mlkem, rsa>>]

SizeRatio(mlkem, rsa) == LengthQuotient[<<mlkem, rsa>>]

Record ==
    /\ pc = "Record"
    /\ Called("Record")
    /\ operationCount' = CountUp(operationCount)
    /\ rsaTotalDuration' = Accumulate(rsaTotalDuration, local.rsaEncryptDuration)
    /\ mlkemTotalDuration' =
           Accumulate(mlkemTotalDuration, local.mlkemEncapsulateDuration)
    /\ LET g1 == [gauge EXCEPT
                    !.rsaEncryptionDurationAvg =
                        Average(rsaTotalDuration', operationCount'),
                    !.mlkemEncapsulationDurationAvg =
                        Average(mlkemTotalDuration', operationCount')]
           g2 == IF DurationGuard(local.rsaEncryptDuration)
                 THEN [g1 EXCEPT !.encryptionDurationRatio =
                           DurationRatio(local.mlkemEncapsulateDuration,
                                         local.rsaEncryptDuration)]
                 ELSE g1
           g3 == IF SizeGuard(SizeOf(local.rsaEncryptedAESKey))
                 THEN [g2 EXCEPT !.encryptedKeySizeRatio =
                           SizeRatio(SizeOf(local.mlkemCiphertext),
                                     SizeOf(local.rsaEncryptedAESKey))]
                 ELSE g2
           g4 == IF SizeGuard(SizeOf(local.rsaPubKeyBytes))
                 THEN [g3 EXCEPT !.publicKeySizeRatio =
                           SizeRatio(SizeOf(local.mlkemPubKeyBytes),
                                     SizeOf(local.rsaPubKeyBytes))]
                 ELSE g3
       IN  gauge' = g4
    /\ samples' = Append(samples, [rsa |-> local.rsaEncryptDuration,
                                   mlkem |-> local.mlkemEncapsulateDuration])
    /\ pc' = "Idle"
    /\ local' = NoLocals
    /\ origin' = [n \in LocalNames |-> 0]
    /\ active' = active - 1
    /\ UNCHANGED <<tickerC, hung, counter, message, encryptionCounter,
                   atStart>>
    /\ UNCHANGED <<serverVars, aesVars>>

(***************************************************************************)
(* The servers, one action per request.                                    *)
(***************************************************************************)
RequestCount == Total(handled.rsa) + Total(handled.mlkem)

\* a request to the RSA server on port 8080
RsaServe(path, method, keyOk, d) ==
    /\ RequestCount < MaxRequests
    /\ rsaServer' =
           IF ServeMux(path) = "metrics" THEN [rsaServer EXCEPT !.status = StatusOK]
           ELSE RsaMetricsMiddleware(rsaServer, ServeMux(path), method, keyOk, d)
    /\ handled' = [handled EXCEPT !.rsa[<<path, method>>] = @ + 1]
    /\ UNCHANGED <<mlkemServer, clientVars, aesVars>>

\* a request to the ML-KEM server on port 8081
MlkemServe(path, method, keyOk, d) ==
    /\ RequestCount < MaxRequests
    /\ mlkemServer' =
           IF ServeMux(path) = "metrics"
           THEN [mlkemServer EXCEPT !.status = StatusOK]
           ELSE MlkemMetricsMiddleware(mlkemServer, ServeMux(path), method,
                                       keyOk, d)
    /\ handled' = [handled EXCEPT !.mlkem[<<path, method>>] = @ + 1]
    /\ UNCHANGED <<rsaServer, clientVars, aesVars>>

ServerNext ==
    \/ \E path \in Paths, method \in Methods, keyOk \in BOOLEAN,
          d \in KeyGenDurations : RsaServe(path, method, keyOk, d)
    \/ \E path \in Paths, method \in Methods, keyOk \in BOOLEAN,
          d \in KeyGenDurations : MlkemServe(path, method, keyOk, d)

ServerSpec == Init /\ [][ServerNext]_vars

(***************************************************************************)
(* encryptAES as a function: its arguments are chosen, then it is called.  *)
(***************************************************************************)
AesCall(plaintext, key, iv, randOk) ==
    /\ aesIn = Nil
    /\ aesIn' = [plaintext |-> plaintext, key |-> key, iv |-> iv,
                 randOk |-> randOk]
    /\ UNCHANGED <<aesOut, clientVars, serverVars>>

AesReturn ==
    /\ aesIn # Nil
    /\ aesOut = Nil
    /\ aesOut' = encryptAESBytes(aesIn.plaintext, aesIn.key, aesIn.iv,
                                 aesIn.randOk)
    /\ UNCHANGED <<aesIn, clientVars, serverVars>>

AesNext ==
    \/ \E plaintext \in PlainTexts, key \in KeyBytes, iv \in IVs,
          randOk \in BOOLEAN : AesCall(plaintext, key, iv, randOk)
    \/ AesReturn

AesSpec == Init /\ [][AesNext]_vars

Next ==
    \/ TickerFire
    \/ StartTick
    \/ HttpGetHangs
    \/ \E r \in Responses : FetchRSA(r)
    \/ \E r \in Responses : FetchMLKEM(r)
    \/ \E key \in AesKeys, randOk \in BOOLEAN : GenKey(key, randOk)
    \/ \E randOk \in BOOLEAN : EncryptAES(randOk)
    \/ \E d \in RsaDurations, rand \in RandReads : WrapRSA(d, rand)
    \/ \E d \in MlkemDurations, rand \in RandReads : WrapMLKEM(d, rand)
    \/ Record

Spec == Init /\ [][Next]_vars

\* a step of the goroutine of main before the recording step
MainStep ==
    \/ StartTick
    \/ \E r \in Responses : FetchRSA(r)
    \/ \E r \in Responses : FetchMLKEM(r)
    \/ \E key \in AesKeys, randOk \in BOOLEAN : GenKey(key, randOk)
    \/ \E randOk \in BOOLEAN : EncryptAES(randOk)
    \/ \E d \in RsaDurations, rand \in RandReads : WrapRSA(d, rand)
    \/ \E d \in MlkemDurations, rand \in RandReads : WrapMLKEM(d, rand)

\* the Go scheduler runs main whenever it can take a step, and the ticker
\* keeps firing; nothing obliges an endpoint to answer.  Record is enabled
\* exactly when pc = "Record" and leaves it, so that []<>(pc # "Record") is
\* WF_vars(Record)
LiveSpec ==
    /\ Spec
    /\ WF_vars(TickerFire)
    /\ WF_vars(MainStep)
    /\ []<>(pc # "Record")

(***************************************************************************)
(* Properties.                                                             *)
(***************************************************************************)
\* the loop is between two ticks and the last tick was abandoned
LastTickAborted == pc = "Idle" /\ counter > 0 /\ local.err # "nil"

\* the loop is between two ticks and the last tick ran through
LastTickDone == pc = "Idle" /\ counter > 0 /\ local.err = "nil"

\* the step taken is the recording step of a tick
Recorded == pc = "Record" /\ pc' = "Idle"

StepOrder ==
    <<"FetchRSA", "FetchMLKEM", "GenKey", "EncryptAES", "WrapRSA",
      "WrapMLKEM", "Record">>

RatioNames ==
    {"encryptionDurationRatio", "encryptedKeySizeRatio", "publicKeySizeRatio"}

\* C1: a tick that was abandoned leaves every gauge at the value it had when
\* the tick started.
C1_NoPartialMetrics == LastTickAborted => gauge = atStart.gauge

\* C2: the cumulative count is the number of ticks that ran through; such a
\* tick adds one to the count and its own two wrap durations to the two
\* totals, once each, and no other step changes any of the three.
C2_CountAndTotals ==
    /\ [](operationCount = Len(samples))
    /\ [][IF samples' # samples
          THEN /\ operationCount' = operationCount + 1
               /\ rsaTotalDuration' =
                      FAdd(rsaTotalDuration,
                           SecondsOf[samples'[Len(samples')].rsa])
               /\ mlkemTotalDuration' =
                      FAdd(mlkemTotalDuration,
                           SecondsOf[samples'[Len(samples')].mlkem])
          ELSE UNCHANGED <<operationCount, rsaTotalDuration,
                           mlkemTotalDuration>>]_vars

C2_Witness ==
    /\ LastTickAborted
    /\ operationCount = 2
    /\ counter = 3
    /\ rsaTotalDuration # FZero

\* C3: a public_key that is not base64 makes either fetch return the decode
\* error; the tick is left at once, none of key generation, AES encryption,
\* the wraps and the recording has run, and the running statistics are those
\* of the start of the tick.
C3_MalformedBase64Aborts ==
    /\ \A r \in Responses :
          (r.net = "ok" /\ r.status = StatusOK /\ r.json /\ ~r.b64)
          => /\ fetchPublicKey(r).err = "Base64DecodeError"
             /\ fetchMLKEMPublicKey(r).err = "Base64DecodeError"
    /\ local.err = "Base64DecodeError"
       => /\ pc = "Idle"
          /\ \A s \in {"GenKey", "EncryptAES", "WrapRSA", "WrapMLKEM",
                       "Record"} : calls[s] = 0
          /\ Stats = atStart.stats

C3_Witness ==
    /\ local.err = "Base64DecodeError"
    /\ calls["FetchMLKEM"] = 1
    /\ operationCount = 1

\* C4: the recording step leaves a ratio gauge as it was when the RSA value
\* of the tick is zero, and no ratio gauge ever holds an infinity or a NaN.
C4_ZeroDenominatorGuard ==
    /\ [](\A g \in RatioNames : gauge[g].cls \in {"zero", "fin"})
    /\ [][Recorded =>
            /\ local.rsaEncryptDuration = 0 =>
                  gauge'.encryptionDurationRatio = gauge.encryptionDurationRatio
            /\ SizeOf(local.rsaEncryptedAESKey) = 0 =>
                  gauge'.encryptedKeySizeRatio = gauge.encryptedKeySizeRatio
            /\ SizeOf(local.rsaPubKeyBytes) = 0 =>
                  gauge'.publicKeySizeRatio = gauge.publicKeySizeRatio]_vars

\* a tick whose RSA wrap took 0 ns has been recorded, and the duration ratio
\* is the one of an earlier tick
C4_Witness ==
    /\ LastTickDone
    /\ gauge.rsaEncryptionDuration = FZero
    /\ gauge.encryptionDurationRatio # FZero

\* C5: at most one loop body is in execution; a tick starts only when none
\* is, the channel holds at most one pending firing, and the statistics and
\* gauges change only in the one running body.
C5_OneTickAtATime ==
    /\ [](active <= 1 /\ tickerC <= 1 /\ (active = 1 <=> pc # "Idle"))
    /\ [][/\ counter' # counter => (pc = "Idle" /\ active = 0)
          /\ (gauge' # gauge \/ Stats' # Stats) => (active = 1 /\ pc # "Idle")
         ]_vars

\* the ticker fired while a tick was running
C5_Witness == pc = "WrapRSA" /\ tickerC = 1 /\ active = 1 /\ counter = 2

\* C6: every tick that starts gets back to Idle.
C6_TickReturnsToIdle == (pc # "Idle") ~> (pc = "Idle")

\* C7: no step runs twice in a tick and no step runs after a failed one; an
\* error always leads back to Idle, and the next tick starts at the RSA fetch
\* with nothing carried over.
C7_NoRetryNoExit ==
    /\ [](/\ \A s \in Steps : calls[s] <= 1
          /\ \A i, j \in 1..Len(StepOrder) :
                i < j => calls[StepOrder[j]] <= calls[StepOrder[i]]
          /\ local.err # "nil" => pc = "Idle")
    /\ [][(pc = "Idle" /\ pc' # "Idle") =>
             /\ pc' = "FetchRSA"
             /\ local' = NoLocals
             /\ \A s \in Steps : calls'[s] = 0
             /\ counter' = counter + 1]_vars

\* the second tick failed at the RSA wrap after the first one had failed too
C7_Witness ==
    /\ LastTickAborted
    /\ counter = 2
    /\ operationCount = 0
    /\ calls["WrapRSA"] = 1
    /\ calls["WrapMLKEM"] = 0

AllSame(f) == \A i \in 1..Len(samples) : samples[i][f] = samples[1][f]

AbsDiff(a, b) == IF BGeq(a, b) THEN BSub(a, b) ELSE BSub(b, a)

\* x and y are at most n units in the last place apart
WithinUlps(x, y, n) ==
    \/ x = y
    \/ /\ x.cls = "fin" /\ y.cls = "fin" /\ x.e = y.e
       /\ BGeq(BFromInt(n), AbsDiff(x.m, y.m))

\* C8 as stated: after N ticks with the same wrap duration d the average
\* gauge of the scheme is d.
C8_AverageIsExact ==
    (LastTickDone /\ operationCount >= 1) =>
        /\ AllSame("rsa") =>
              gauge.rsaEncryptionDurationAvg = SecondsOf[samples[1].rsa]
        /\ AllSame("mlkem") =>
              gauge.mlkemEncapsulationDurationAvg = SecondsOf[samples[1].mlkem]

\* C8, amended: the recording step sets each average gauge to the float64
\* quotient of the scheme's total by the count; after N ticks with the same
\* wrap duration d it is d for N <= 2 and within N units in the last place
\* of d in general.
C8_AverageIsRoundedQuotient ==
    /\ [][Recorded =>
            /\ gauge'.rsaEncryptionDurationAvg =
                   FDiv(rsaTotalDuration', FromInt(operationCount'))
            /\ gauge'.mlkemEncapsulationDurationAvg =
                   FDiv(mlkemTotalDuration', FromInt(operationCount'))]_vars
    /\ []((LastTickDone /\ operationCount >= 1) =>
            /\ AllSame("rsa") =>
                 /\ WithinUlps(gauge.rsaEncryptionDurationAvg,
                               SecondsOf[samples[1].rsa], operationCount)
                 /\ operationCount <= 2 =>
                       gauge.rsaEncryptionDurationAvg =
                           SecondsOf[samples[1].rsa]
            /\ AllSame("mlkem") =>
                 /\ WithinUlps(gauge.mlkemEncapsulationDurationAvg,
                               SecondsOf[samples[1].mlkem], operationCount)
                 /\ operationCount <= 2 =>
                       gauge.mlkemEncapsulationDurationAvg =
                           SecondsOf[samples[1].mlkem])

\* three ticks of 100 ms each, with an average that is not 100 ms
C8_Witness ==
    /\ LastTickDone
    /\ operationCount = 3
    /\ AllSame("rsa")
    /\ samples[1].rsa = 100000000
    /\ gauge.rsaEncryptionDurationAvg # SecondsOf[100000000]

\* C9: when the recording step is reached every value it reads was assigned
\* in this tick, the RSA wrap is of this tick's symmetric key, the ciphertext
\* is this tick's message under this key, and what the recording step counts
\* is what this tick's wraps exported.
C9_NoCrossTickMixing ==
    /\ pc = "Record" =>
          /\ \A n \in LocalNames : origin[n] = counter
          /\ local.rsaEncryptedAESKey.of = local.aesKey.bytes
          /\ local.encryptedMessage.of = message.text
          /\ local.encryptedMessage.key = local.aesKey.bytes
          /\ gauge.rsaEncryptionDuration = SecondsOf[local.rsaEncryptDuration]
          /\ gauge.mlkemEncapsulationDuration =
                 SecondsOf[local.mlkemEncapsulateDuration]
    /\ (LastTickDone /\ operationCount >= 1) =>
          /\ gauge.rsaEncryptionDuration = SecondsOf[samples[Len(samples)].rsa]
          /\ gauge.mlkemEncapsulationDuration =
                 SecondsOf[samples[Len(samples)].mlkem]

\* the third tick reaches the recording step, with other durations than the
\* tick before, whose values were recorded
C9_Witness ==
    /\ pc = "Record"
    /\ counter = 3
    /\ operationCount = 1
    /\ samples[1].rsa # local.rsaEncryptDuration
    /\ samples[1].mlkem # local.mlkemEncapsulateDuration

Phase(p) ==
    CASE p = "Idle" -> "Idle"
      [] p \in {"FetchRSA", "FetchMLKEM"} -> "FetchingKeys"
      [] p \in {"GenKey", "EncryptAES"} -> "Encrypting"
      [] p \in {"WrapRSA", "WrapMLKEM"} -> "WrappingKeys"
      [] p = "Record" -> "Recording"

PhaseOrder ==
    {<<"Idle", "FetchingKeys">>, <<"FetchingKeys", "Encrypting">>,
     <<"Encrypting", "WrappingKeys">>, <<"WrappingKeys", "Recording">>,
     <<"Recording", "Idle">>}

StepIndex(p) == CHOOSE i \in 1..Len(StepOrder) : StepOrder[i] = p

\* the variables each step assigns when it succeeds
Assigns ==
    [FetchRSA |-> {"rsaPublicKey", "rsaPubKeyBytes"},
     FetchMLKEM |-> {"mlkemPublicKey", "mlkemPubKeyBytes"},
     GenKey |-> {"aesKey"},
     EncryptAES |-> {"encryptedMessage", "iv"},
     WrapRSA |-> {"rsaEncryptedAESKey", "rsaEncryptDuration"},
     WrapMLKEM |-> {"mlkemCiphertext", "mlkemEncapsulateDuration"},
     Record |-> {}]

\* C10: the phase changes only along Idle, FetchingKeys, Encrypting,
\* WrappingKeys, Recording, Idle (or back to Idle on a failure), within a
\* phase the two steps run in their order, a step is reached only when all
\* steps before it have run once and succeeded, and the statistics change
\* only in the recording step of a tick whose six steps have all succeeded.
C10_PhaseOrder ==
    /\ [](pc # "Idle" =>
            /\ local.err = "nil"
            /\ \A i \in 1..Len(StepOrder) :
                  i < StepIndex(pc) =>
                     /\ calls[StepOrder[i]] = 1
                     /\ \A n \in Assigns[StepOrder[i]] : origin[n] = counter)
    /\ [][/\ Phase(pc') # Phase(pc) =>
                \/ <<Phase(pc), Phase(pc')>> \in PhaseOrder
                \/ (pc' = "Idle" /\ local'.err # "nil")
          /\ (pc' # pc /\ pc' # "Idle" /\ pc # "Idle") =>
                StepIndex(pc') = StepIndex(pc) + 1
          /\ Stats' # Stats =>
                /\ pc = "Record"
                /\ \A s \in Steps \ {"Record"} : calls[s] = 1
                /\ \A n \in LocalNames : origin[n] = counter]_vars

\* a tick has run through all phases after an earlier one was abandoned
C10_Witness == LastTickDone /\ operationCount = 1 /\ counter = 2


\* C11: the attempt counter goes up by one exactly in the step that starts a
\* tick and in no other step, so that it is the number of ticks started and
\* never below the cumulative count of the ticks that ran through.
C11_AttemptsCounted ==
    /\ [](/\ encryptionCounter = counter
          /\ encryptionCounter >= operationCount
          /\ encryptionCounter >= Len(samples))
    /\ [][IF pc = "Idle" /\ pc' # "Idle"
          THEN encryptionCounter' = encryptionCounter + 1
          ELSE encryptionCounter' = encryptionCounter]_vars

\* three ticks were started, one of them ran through and the last one was
\* abandoned
C11_Witness ==
    /\ LastTickAborted
    /\ encryptionCounter = 3
    /\ operationCount = 1


\* the float64 values 0.02, 4.029629629629629 and 4.25
F0p02 == [cls |-> "fin", m |-> <<128849019, 42949672>>, e |-> -58]

F4p0296 == [cls |-> "fin", m |-> <<46727653, 33802983>>, e |-> -50]

F4p25 == [cls |-> "fin", m |-> <<0, 35651584>>, e |-> -50]

\* C12: the recording step of a tick whose RSA values are not zero sets each
\* ratio gauge to the float64 quotient of the tick's ML-KEM value by its RSA
\* value: 2 ms over 100 ms gives 0.02, and 1088 bytes over 270 bytes gives
\* 4.0296 to four decimals.
C12_RatiosMlkemOverRsa ==
    /\ [][Recorded =>
            /\ local.rsaEncryptDuration > 0 =>
                  /\ gauge'.encryptionDurationRatio =
                         FDiv(Seconds(local.mlkemEncapsulateDuration),
                              Seconds(local.rsaEncryptDuration))
                  /\ (/\ local.mlkemEncapsulateDuration = 2000000
                      /\ local.rsaEncryptDuration = 100000000) =>
                         gauge'.encryptionDurationRatio = F0p02
            /\ SizeOf(local.rsaEncryptedAESKey) > 0 =>
                  gauge'.encryptedKeySizeRatio =
                      FDiv(FromInt(SizeOf(local.mlkemCiphertext)),
                           FromInt(SizeOf(local.rsaEncryptedAESKey)))
            /\ SizeOf(local.rsaPubKeyBytes) > 0 =>
                  gauge'.publicKeySizeRatio =
                      FDiv(FromInt(SizeOf(local.mlkemPubKeyBytes)),
                           FromInt(SizeOf(local.rsaPubKeyBytes)))]_vars
    /\ [](SizeRatio(1088, 270) = F4p0296)

\* a tick of 2 ms against 100 ms, 1088 bytes against 256 bytes, was recorded
C12_Witness ==
    /\ LastTickDone
    /\ gauge.encryptionDurationRatio = F0p02
    /\ gauge.encryptedKeySizeRatio = F4p25
    /\ gauge.publicKeySizeRatio.cls = "fin"


\* the three kinds of fetch failure
ErrorClass(e) ==
    CASE e \in {"HTTPGetError", "HTTPStatusError"} -> "TransportError"
      [] e \in {"JSONDecodeError", "Base64DecodeError"} -> "DecodeError"
      [] e \in {"KeyParseError", "RSAConversionError"} -> "KeyParseError"
      [] OTHER -> "none"

\* answers with every combination of status, body and key bytes
FetchInputs ==
    {TransportFailure}
    \cup {Answer(st, j, b, k) : st \in {200, 201, 204, 302, 404, 500},
                                j \in BOOLEAN, b \in BOOLEAN, k \in KeyBlobs}

\* the 2xx statuses of HTTP
SuccessRange == 200..299

\* the stage at which a fetch for keys of kind scheme fails on r, when the
\* statuses in ok pass the transport stage
FirstFailingStage(r, scheme, ok) ==
    IF r.net # "ok" \/ r.status \notin ok THEN "TransportError"
    ELSE IF ~r.json \/ ~r.b64 THEN "DecodeError"
    ELSE IF r.bytes.kind # scheme THEN "KeyParseError"
    ELSE "none"

\* f is what the fetch must return on r
FetchAsClaimed(f, r, scheme, ok) ==
    /\ ErrorClass(f.err) = FirstFailingStage(r, scheme, ok)
    /\ IF f.err = "nil"
       THEN f.publicKey.kind = scheme /\ f.pubKeyBytes = r.bytes
       ELSE f.publicKey = Nil /\ f.pubKeyBytes = Nil

\* every fetch is as claimed
FetchesAsClaimed(ok) ==
    \A r \in FetchInputs :
        /\ FetchAsClaimed(fetchPublicKey(r), r, "rsa", ok)
        /\ FetchAsClaimed(fetchMLKEMPublicKey(r), r, "kyber768", ok)

\* the step is no fetch step of a tick, or it is as claimed
FetchStepAsClaimed(ok) ==
    \A r \in Responses :
        /\ FetchRSA(r) =>
              /\ ErrorClass(local'.err) = FirstFailingStage(r, "rsa", ok)
              /\ local'.err # "nil" => \A n \in LocalNames : local'[n] = Nil
              /\ local'.err = "nil" =>
                    /\ local'.rsaPublicKey.kind = "rsa"
                    /\ local'.rsaPubKeyBytes = r.bytes
        /\ FetchMLKEM(r) =>
              /\ ErrorClass(local'.err) = FirstFailingStage(r, "kyber768", ok)
              /\ local'.err # "nil" => \A n \in LocalNames : local'[n] = Nil
              /\ local'.err = "nil" =>
                    /\ local'.mlkemPublicKey.kind = "kyber768"
                    /\ local'.mlkemPubKeyBytes = r.bytes

Routed(srv) ==
    SumOver(handled[srv],
            {k \in Paths \X Methods : ServeMux(k[1]) # "metrics"})

\* C14: on the RSA server the counter rsa_server_public_key_requests_total
\* is the number of GET /public-key requests the server has handled.
C14_RsaPublicKeyRequestsCounted ==
    rsaServer.publicKeyRequests = handled.rsa[<<"/public-key", "GET">>]

\* C15: each server counts every request that goes through its
\* metricsMiddleware once in its http_requests_total counter.
C15_HttpRequestsCounted ==
    /\ Total(rsaServer.httpRequestsTotal) = Routed("rsa")
    /\ Routed("mlkem") > 0 =>
          /\ "httpRequestsTotal" \in DOMAIN mlkemServer
          /\ Total(mlkemServer.httpRequestsTotal) = Routed("mlkem")


\* C16: from the AES encryption to the recording step the symmetric key of
\* the tick is the 32-byte key this tick's key generation drew, the message
\* ciphertext and the RSA wrap are made with it, and between the end of a
\* tick and the next key generation no key is held: no key of an earlier tick
\* is there to be used.
C16_FreshKeyEveryTick ==
    /\ [](/\ pc \in {"EncryptAES", "WrapRSA", "WrapMLKEM", "Record"} =>
                /\ calls["GenKey"] = 1
                /\ origin.aesKey = counter
                /\ local.aesKey.bytes \in AesKeys
                /\ SizeOf(local.aesKey) = 32
          /\ pc \in {"WrapRSA", "WrapMLKEM", "Record"} =>
                /\ local.encryptedMessage.key = local.aesKey.bytes
                /\ origin.encryptedMessage = counter
          /\ pc \in {"WrapMLKEM", "Record"} =>
                /\ local.rsaEncryptedAESKey.of = local.aesKey.bytes
                /\ origin.rsaEncryptedAESKey = counter
          /\ pc \in {"Idle", "FetchRSA", "FetchMLKEM", "GenKey"} =>
                local.aesKey = Nil /\ origin.aesKey = 0)
    /\ [][(pc = "GenKey" /\ pc' = "EncryptAES") =>
             (local.aesKey = Nil /\ local'.aesKey # Nil)]_vars

\* the second tick has wrapped its own key after the first tick ran through
C16_Witness ==
    /\ pc = "WrapMLKEM"
    /\ counter = 2
    /\ operationCount = 1
    /\ origin.aesKey = 2
    /\ local.rsaEncryptedAESKey.of = local.aesKey.bytes


\* block.Decrypt: the inverse of BlockEncrypt
BlockDecrypt(key, block) ==
    LET u == [i \in 1..AesBlockSize |->
                 XorByte((block[i] + ByteValues
                          - key[((i + 7) % Len(key)) + 1]) % ByteValues,
                         key[i])]
    IN  [j \in 1..AesBlockSize |-> u[((j + AesBlockSize - 2) % AesBlockSize) + 1]]

\* CBC decryption of src, prev being the ciphertext block before it
RECURSIVE DecryptBlocks(_, _, _)
DecryptBlocks(key, prev, src) ==
    IF Len(src) = 0 THEN <<>>
    ELSE LET block == SubSeq(src, 1, AesBlockSize)
             plain == BlockDecrypt(key, block)
         IN  [i \in 1..AesBlockSize |-> XorByte(plain[i], prev[i])]
             \o DecryptBlocks(key, block, SubSeq(src, AesBlockSize + 1, Len(src)))

\* PKCS#7: the last byte says how many bytes to strip
StripPadding(p) == SubSeq(p, 1, Len(p) - p[Len(p)])

\* C17: for every message M that encryptAES encrypts, the ciphertext is as
\* long as the smallest multiple of 16 above len(M), it decrypts under the
\* same key and IV to M followed by p bytes of value p, 1 <= p <= 16, and
\* stripping the padding gives back M.
C17_AesRoundTrip ==
    (aesOut # Nil /\ aesOut.err = "nil") =>
        LET M == aesIn.plaintext
            C == aesOut.ciphertext
            P == DecryptBlocks(aesIn.key, aesOut.iv, C)
            p == Len(C) - Len(M)
        IN  /\ Len(C) = ((Len(M) \div 16) + 1) * 16
            /\ p \in 1..16
            /\ Len(P) = Len(C)
            /\ SubSeq(P, 1, Len(M)) = M
            /\ \A i \in (Len(M) + 1)..Len(P) : P[i] = p
            /\ StripPadding(P) = M
            /\ aesOut.iv = aesIn.iv

\* a message of two whole blocks, all bytes 16, has been encrypted
C17_Witness ==
    /\ aesOut # Nil
    /\ aesOut.err = "nil"
    /\ Len(aesIn.plaintext) = 32
    /\ aesIn.plaintext[32] = 16
    /\ Len(aesOut.ciphertext) = 48


MaxSetSize == 4

\* C18: the step that starts a tick first increments the tick count (the
\* first tick has count 1) and selects the message at index count mod set
\* size; for every set size from 1 to MaxSetSize and every count the index
\* is an index of the set, and the next count selects the next index,
\* wrapping around after the last.
C18_MessageRotation ==
    /\ [](\A n \in 1..MaxSetSize : \A c \in 1..(2 * MaxSetSize + MaxTicks) :
            /\ MessageIndex(c, n) \in 0..(n - 1)
            /\ MessageIndex(c + 1, n) =
                  IF MessageIndex(c, n) = n - 1 THEN 0
                  ELSE MessageIndex(c, n) + 1
            /\ c < n => MessageIndex(c, n) = c)
    /\ [](counter > 0 =>
            /\ (counter % Len(messages)) + 1 \in DOMAIN messages
            /\ message = messages[(counter % Len(messages)) + 1])
    /\ [][(pc = "Idle" /\ pc' # "Idle") =>
             /\ counter' = counter + 1
             /\ message' = messages[(counter' % Len(messages)) + 1]]_vars

\* the third tick encrypts the message selected for count 3
C18_Witness ==
    /\ pc = "EncryptAES"
    /\ counter = 3
    /\ message = messages[(3 % Len(messages)) + 1]


\* the ratio gauge is the quotient of the two gauges, the case of a zero RSA
\* gauge apart (for which no ratio is computed)
QuotientOfGauges(ratio, mlkem, rsa) ==
    gauge[rsa] # FZero => gauge[ratio] = FDiv(gauge[mlkem], gauge[rsa])

\* C19: whenever the loop is between two ticks and at least one tick has run
\* through, each of the three ratio gauges is the quotient of the two gauges
\* it compares.
C19_SnapshotConsistency ==
    (pc = "Idle" /\ operationCount >= 1) =>
        /\ QuotientOfGauges("publicKeySizeRatio", "mlkemPublicKeySize",
                            "rsaPublicKeySize")
        /\ QuotientOfGauges("encryptedKeySizeRatio", "mlkemEncryptedKeySize",
                            "rsaEncryptedKeySize")
        /\ QuotientOfGauges("encryptionDurationRatio",
                            "mlkemEncapsulationDuration",
                            "rsaEncryptionDuration")


\* reads of rand.Reader that succeed
Seeds == {"rand-a", "rand-b"}

SymmetricKeys == {[bytes |-> k, len |-> AesKeySize] : k \in AesKeys}

\* C20: with the same public key and the same bytes read from rand.Reader,
\* encryptMLKEM returns the same ciphertext and shared secret whatever the
\* symmetric key, and encryptRSA returns different ciphertexts for different
\* keys; the ML-KEM step of a tick keeps the ciphertext only, changes neither
\* the encrypted message nor the RSA wrap, and no variable of the tick ever
\* holds the shared secret.
C20_MlkemIgnoresKey ==
    /\ [](\A k1 \in SymmetricKeys, k2 \in SymmetricKeys, r \in Seeds :
            /\ encryptMLKEM(Kyber768Bin, k1, r) =
                   encryptMLKEM(Kyber768Bin, k2, r)
            /\ k1 # k2 =>
                   encryptRSA(Rsa2048Der, k1, r).ciphertext #
                       encryptRSA(Rsa2048Der, k2, r).ciphertext)
    /\ [](pc \in {"WrapMLKEM", "Record"} =>
            local.rsaEncryptedAESKey.of = local.aesKey.bytes)
    /\ [](\A n \in {"aesKey", "encryptedMessage", "iv", "rsaEncryptedAESKey",
                    "mlkemCiphertext"} :
            \A r \in Seeds :
                local[n] #
                    encryptMLKEM(Kyber768Bin, local.aesKey, r).sharedSecret)
    /\ [][(pc = "WrapMLKEM" /\ pc' = "Record") =>
             /\ \A k \in SymmetricKeys :
                   local'.mlkemCiphertext =
                       encryptMLKEM(local.mlkemPublicKey, k,
                                    local'.mlkemCiphertext.rand).ciphertext
             /\ local'.encryptedMessage = local.encryptedMessage
             /\ local'.rsaEncryptedAESKey = local.rsaEncryptedAESKey
             /\ local'.aesKey = local.aesKey]_vars

\* the ML-KEM step of a tick has run
C20_Witness ==
    /\ pc = "Record"
    /\ local.mlkemCiphertext # Nil
    /\ local.mlkemCiphertext.rand \in Seeds
    /\ local.rsaEncryptedAESKey.of = local.aesKey.bytes

====
